---- MODULE Spec2Model ----
(***************************************************************************)
(* A model of the front end of mode_statsig_analyzer:                      *)
(*   - ABTestDashboard.processData     (frontend/src/example.tsx)          *)
(*   - ConfidenceChart, its three copies                                   *)
(*       (components/ConfidenceChart.tsx, twice, and unnamed/part_003)     *)
(*   - StatisticalSummary and its dummyData, both copies                   *)
(*       (components/StatisticalSummary.tsx and unnamed/part_001)          *)
(*   - ExperimentResults, both copies, under App's experimentId            *)
(*       (unnamed/part_000, unnamed/part_004 and frontend/src/App.tsx)     *)
(*   - UploadForm, both copies, handing its experiment id to App           *)
(*       (components/UploadForm.tsx and unnamed/part_002)                  *)
(*                                                                         *)
(* JavaScript numbers are modelled as exact extended rationals: a record   *)
(* [n, d] in lowest terms with d > 0, and d = 0 for the three non-finite   *)
(* values (n = 1: Infinity, n = -1: -Infinity, n = 0: NaN).  IEEE rounding *)
(* is not modelled.                                                        *)
(***************************************************************************)
EXTENDS Integers, Sequences, FiniteSets, TLC

VARIABLES
  rawData,         \* example.tsx: the rows Papa.parse hands to processData
  loading,         \* example.tsx:13
  variants,        \* example.tsx:8
  funnelData,      \* example.tsx:9
  conversionData,  \* example.tsx:10
  comparisonData,  \* example.tsx:11
  chartCopy,       \* which copy of ConfidenceChart is built
  chartProps,      \* ConfidenceChart's data prop
  rendered,        \* what ConfidenceChart has drawn
  summaryCopy,     \* which copy of StatisticalSummary is built
  expandedRow,     \* StatisticalSummary: useState<string | null>(null)
  selectedTab,     \* StatisticalSummary: useState(0)
  resultsCopy,     \* which copy of ExperimentResults is built
  experimentId,    \* App.tsx: useState<string | null>(null), ExperimentResults' prop
  inFlight,        \* the axios.get requests of fetchResults not yet settled, per id
  results,         \* ExperimentResults: useState(null)
  resultsLoading,  \* ExperimentResults: useState<boolean>(false)
  resultsError,    \* ExperimentResults: useState<string | null>(null)
  uploadCopy,      \* which copy of UploadForm is built
  selectedFile,    \* UploadForm: useState<File | null>(null)
  isUploading,     \* UploadForm: isUploading (part_002:21), isLoading (UploadForm.tsx:19)
  uploadStatus,    \* UploadForm: uploadStatus (part_002:22-26), statusMessage and
                   \* isError (UploadForm.tsx:17-18)
  pendingUpload    \* the file of the upload handleSubmit is awaiting, if any

vars == <<rawData, loading, variants, funnelData, conversionData, comparisonData,
          chartCopy, chartProps, rendered, summaryCopy, expandedRow, selectedTab,
          resultsCopy, experimentId, inFlight, results, resultsLoading, resultsError,
          uploadCopy, selectedFile, isUploading, uploadStatus, pendingUpload>>

dashboardVars == <<rawData, loading, variants, funnelData, conversionData, comparisonData>>
chartVars == <<chartCopy, chartProps, rendered>>
summaryVars == <<summaryCopy, expandedRow, selectedTab>>
resultsVars ==
  <<resultsCopy, experimentId, inFlight, results, resultsLoading, resultsError>>
uploadVars == <<uploadCopy, selectedFile, isUploading, uploadStatus, pendingUpload>>

(***************************************************************************)
(* Bounds of the model.                                                    *)
(***************************************************************************)
\* rows of rawData in the free-form input
MaxRows == 3
\* largest 'Measure Values' in the free-form input
MaxCount == 2
\* largest Users count (trials) in the four-count input
MaxTrials == 25
\* largest step count (successes) in the four-count input
MaxSuccesses == 4
\* points of a free-form trajectory handed to ConfidenceChart
MaxPoints == 4
\* free-form confidences lie within this many tenths of a percent of the threshold
ConfSpread == 1

(***************************************************************************)
(* Numbers.                                                                *)
(***************************************************************************)
RECURSIVE GCD(_, _)
GCD(a, b) == IF b = 0 THEN a ELSE GCD(b, a % b)

AbsInt(i) == IF i < 0 THEN -i ELSE i

\* the rational n/d (d # 0) in lowest terms with a positive denominator
Rat(n, d) ==
  LET g == GCD(AbsInt(n), AbsInt(d))
      s == IF d < 0 THEN -1 ELSE 1
  IN  [n |-> (s * n) \div g, d |-> (s * d) \div g]

Int2Num(i) == [n |-> i, d |-> 1]
Infinity == [n |-> 1, d |-> 0]
NegInfinity == [n |-> -1, d |-> 0]
NaN == [n |-> 0, d |-> 0]

IsFinite(x) == x.d # 0

\* x / y for finite x and y: a zero divisor gives NaN (0/0) or a signed Infinity
NumDiv(x, y) ==
  IF y.n = 0
    THEN IF x.n = 0 THEN NaN ELSE IF x.n > 0 THEN Infinity ELSE NegInfinity
    ELSE Rat(x.n * y.d, x.d * y.n)

\* x * y for a finite y > 0: Infinity and NaN are kept
NumMul(x, y) == IF IsFinite(x) THEN Rat(x.n * y.n, x.d * y.d) ELSE x

NumAdd(x, y) == Rat(x.n * y.d + y.n * x.d, x.d * y.d)
NumSub(x, y) == Rat(x.n * y.d - y.n * x.d, x.d * y.d)
NumAbs(x) == [n |-> AbsInt(x.n), d |-> x.d]
\* x > y for finite x and y
NumGt(x, y) == x.n * y.d > y.n * x.d
NumMin(x, y) == IF NumGt(x, y) THEN y ELSE x

(***************************************************************************)
(* ABTestDashboard.processData (example.tsx:47-185).                       *)
(* A row of rawData is [VARIATION_KEY, MeasureNames, MeasureValues], the   *)
(* columns 'VARIATION_KEY', 'Measure Names' and 'Measure Values'.          *)
(***************************************************************************)
funnelOrder ==
  <<"Users", "Ct_Typewriter_Intro", "Ct_Goals", "Ct_Protections", "Ct_HowItWorks", "Ct_Intent">>

\* step.replace('Ct_', '')
StripCt(step) ==
  CASE step = "Ct_Typewriter_Intro" -> "Typewriter_Intro"
    [] step = "Ct_Goals" -> "Goals"
    [] step = "Ct_Protections" -> "Protections"
    [] step = "Ct_HowItWorks" -> "HowItWorks"
    [] step = "Ct_Intent" -> "Intent"
    [] OTHER -> step

RECURSIVE UniqueSeq(_, _)
UniqueSeq(s, seen) ==
  IF s = <<>> THEN <<>>
  ELSE IF Head(s) \in seen THEN UniqueSeq(Tail(s), seen)
  ELSE <<Head(s)>> \o UniqueSeq(Tail(s), seen \cup {Head(s)})

\* [...new Set(rawData.map(row => row.VARIATION_KEY))]: first occurrences, in order
uniqueVariants(rows) ==
  UniqueSeq([i \in 1..Len(rows) |-> rows[i].VARIATION_KEY], {})

\* _.groupBy(rawData, 'VARIATION_KEY')[variant]
groupedByVariant(rows, variant) ==
  SelectSeq(rows, LAMBDA row : row.VARIATION_KEY = variant)

\* measureMap[item['Measure Names']] = item['Measure Values'], a later row overwriting
measureMap(variantData) ==
  [name \in {variantData[i].MeasureNames : i \in 1..Len(variantData)} |->
     LET last == CHOOSE i \in 1..Len(variantData) :
                   /\ variantData[i].MeasureNames = name
                   /\ \A j \in (i + 1)..Len(variantData) : variantData[j].MeasureNames # name
     IN  variantData[last].MeasureValues]

\* map[key] || dflt: a missing key and a count of 0 both give dflt
OrDefault(map, key, dflt) ==
  IF key \in DOMAIN map /\ map[key] # 0 THEN map[key] ELSE dflt

\* (count / userCount) * 100, example.tsx:97 and 136-137: count / 0 is NaN for a count
\* of 0 and Infinity otherwise, and * 100 keeps both
ratePercent(count, userCount) ==
  IF userCount = 0
    THEN IF count = 0 THEN NaN ELSE Infinity
    ELSE Rat(100 * count, userCount)

\* mutant: the step-to-step rate divided by the Users count
prevCountOf_Users(map, index) == OrDefault(map, "Users", 1)

\* the count a step's rate is divided by in conversionRates, example.tsx:89-90
prevCountOf(map, index) ==
  OrDefault(map, IF index > 1 THEN funnelOrder[index - 1] ELSE "Users", 1)

\* funnelSteps.push, example.tsx:93-98; index is the step's place in funnelOrder
funnelStepOf(variant, map, index) ==
  LET step == funnelOrder[index]
      userCount == OrDefault(map, "Users", 0)
      count == OrDefault(map, step, 0)
  IN  [step |-> StripCt(step), variant |-> variant, count |-> count,
       conversionRate |-> ratePercent(count, userCount)]

\* conversionRates.push, example.tsx:101-106
conversionRateOf(variant, map, index) ==
  LET step == funnelOrder[index]
      count == OrDefault(map, step, 0)
      prevStep == IF index > 1 THEN funnelOrder[index - 1] ELSE "Users"
  IN  [step |-> StripCt(step), variant |-> variant,
       rate |-> ratePercent(count, prevCountOf(map, index)),
       prevStep |-> StripCt(prevStep)]

\* the steps funnelOrder.forEach does not skip: every one but 'Users'
StepIndexes == {i \in 1..Len(funnelOrder) : funnelOrder[i] # "Users"}

RECURSIVE IndexSeq(_)
\* a set of indexes as an ascending sequence
IndexSeq(S) ==
  IF S = {} THEN <<>>
  ELSE LET m == CHOOSE x \in S : \A y \in S : x <= y
       IN  <<m>> \o IndexSeq(S \ {m})

\* the indexes funnelOrder.forEach visits past the skip, in order
StepSeq == IndexSeq(StepIndexes)

RECURSIVE Flatten(_)
\* the concatenation of a sequence of sequences
Flatten(ss) == IF ss = <<>> THEN <<>> ELSE Head(ss) \o Flatten(Tail(ss))

\* one variant's pass over funnelOrder, example.tsx:72-107: its funnelSteps entries
funnelStepsOfVariant(rows, variant) ==
  LET map == measureMap(groupedByVariant(rows, variant))
  IN  [k \in 1..Len(StepSeq) |-> funnelStepOf(variant, map, StepSeq[k])]

\* one variant's pass over funnelOrder, example.tsx:72-107: its conversionRates entries
conversionRatesOfVariant(rows, variant) ==
  LET map == measureMap(groupedByVariant(rows, variant))
  IN  [k \in 1..Len(StepSeq) |-> conversionRateOf(variant, map, StepSeq[k])]

\* uniqueVariants.forEach(variant => funnelOrder.forEach(...)), example.tsx:72-108
funnelSteps(rows) ==
  LET vs == uniqueVariants(rows)
  IN  Flatten([v \in 1..Len(vs) |-> funnelStepsOfVariant(rows, vs[v])])

conversionRates(rows) ==
  LET vs == uniqueVariants(rows)
  IN  Flatten([v \in 1..Len(vs) |-> conversionRatesOfVariant(rows, vs[v])])

\* ((variant1Rate - controlRate) / controlRate) * 100, example.tsx:138
relativeUplift(controlRate, variant1Rate) ==
  NumMul(NumDiv(NumSub(variant1Rate, controlRate), controlRate), Int2Num(100))

\* mutant: Math.min(1, ...) lost, so the approximation leaves [0, 1]
chanceToBeat_NoClamp(step, controlRate, variant1Rate) ==
  LET m == NumDiv(NumAbs(NumSub(variant1Rate, controlRate)), Int2Num(10))
      half == [n |-> 1, d |-> 2]
      approx == IF NumGt(variant1Rate, controlRate)
                  THEN NumAdd(half, NumMul(half, m))
                  ELSE NumSub(half, NumMul(half, m))
  IN  IF step = "Ct_Typewriter_Intro" THEN Rat(99, 100)
      ELSE IF step = "Ct_HowItWorks" THEN Rat(2, 100)
      ELSE approx

\* mutant: the two branches exchanged, so a better variant rate lowers the result
chanceToBeat_Swapped(step, controlRate, variant1Rate) ==
  LET m == NumMin(Int2Num(1),
                  NumDiv(NumAbs(NumSub(variant1Rate, controlRate)), Int2Num(10)))
      half == [n |-> 1, d |-> 2]
      approx == IF NumGt(variant1Rate, controlRate)
                  THEN NumSub(half, NumMul(half, m))
                  ELSE NumAdd(half, NumMul(half, m))
  IN  IF step = "Ct_Typewriter_Intro" THEN Rat(99, 100)
      ELSE IF step = "Ct_HowItWorks" THEN Rat(2, 100)
      ELSE approx

\* mutant: the else branch lost, so a variant that does not beat control keeps the
\* default 0.5
chanceToBeat_NoElse(step, controlRate, variant1Rate) ==
  LET m == NumMin(Int2Num(1),
                  NumDiv(NumAbs(NumSub(variant1Rate, controlRate)), Int2Num(10)))
      half == [n |-> 1, d |-> 2]
      approx == IF NumGt(variant1Rate, controlRate)
                  THEN NumAdd(half, NumMul(half, m))
                  ELSE half
  IN  IF step = "Ct_Typewriter_Intro" THEN Rat(99, 100)
      ELSE IF step = "Ct_HowItWorks" THEN Rat(2, 100)
      ELSE approx

\* example.tsx:154-169: the approximation, then the two hard-coded steps
chanceToBeat(step, controlRate, variant1Rate) ==
  LET m == NumMin(Int2Num(1),
                  NumDiv(NumAbs(NumSub(variant1Rate, controlRate)), Int2Num(10)))
      half == [n |-> 1, d |-> 2]
      approx == IF NumGt(variant1Rate, controlRate)
                  THEN NumAdd(half, NumMul(half, m))
                  ELSE NumSub(half, NumMul(half, m))
  IN  IF step = "Ct_Typewriter_Intro" THEN Rat(99, 100)
      ELSE IF step = "Ct_HowItWorks" THEN Rat(2, 100)
      ELSE approx

\* mutant: >= in place of >
significant_Inclusive(chance) ==
  ~NumGt(Rat(45, 100), NumAbs(NumSub(chance, Rat(1, 2))))

\* Math.abs(chanceToBeat - 0.5) > 0.45, example.tsx:177
significant(chance) ==
  NumGt(NumAbs(NumSub(chance, Rat(1, 2))), Rat(45, 100))

\* comparisonMetrics.push for one step, example.tsx:128-178
comparisonOf(step, controlMap, variant1Map) ==
  LET controlValue == OrDefault(controlMap, step, 0)
      variant1Value == OrDefault(variant1Map, step, 0)
      controlUsers == OrDefault(controlMap, "Users", 1)
      variant1Users == OrDefault(variant1Map, "Users", 1)
      controlRate == ratePercent(controlValue, controlUsers)
      variant1Rate == ratePercent(variant1Value, variant1Users)
      chance == chanceToBeat(step, controlRate, variant1Rate)
  IN  [step |-> StripCt(step),
       controlRate |-> controlRate,
       variant1Rate |-> variant1Rate,
       relativeUplift |-> relativeUplift(controlRate, variant1Rate),
       chanceToBeat |-> NumMul(chance, Int2Num(100)),
       significant |-> significant(chance)]

InSeq(x, s) == \E i \in 1..Len(s) : s[i] = x

\* example.tsx:111-180: only when both 'off' and 'variant_1' are among the variants
comparisonMetrics(rows) ==
  IF InSeq("off", uniqueVariants(rows)) /\ InSeq("variant_1", uniqueVariants(rows))
    THEN LET controlMap == measureMap(groupedByVariant(rows, "off"))
             variant1Map == measureMap(groupedByVariant(rows, "variant_1"))
         IN  [k \in 1..Len(StepSeq) |->
                comparisonOf(funnelOrder[StepSeq[k]], controlMap, variant1Map)]
    ELSE <<>>

\* significanceColorScale(value), example.tsx:213-217; value is chanceToBeat in percent
significanceColorScale(value) ==
  IF NumGt(value, Int2Num(95)) THEN "#38A169"
  ELSE IF NumGt(Int2Num(5), value) THEN "#E53E3E"
  ELSE "#A0AEC0"

\* mutant: the || fallback of the Users count written back into the rows
rawDataAfter_DefaultsStored(rows) ==
  [i \in 1..Len(rows) |->
     IF rows[i].MeasureNames = "Users" /\ rows[i].MeasureValues = 0
       THEN [rows[i] EXCEPT !.MeasureValues = 1]
       ELSE rows[i]]

\* the array processData was handed, after the call: it reads rawData through map,
\* groupBy and forEach only, and assigns to no row and to no index (example.tsx:47-185)
rawDataAfter(rows) == rows

\* Papa.parse's complete callback, example.tsx:33-36: processData(results.data), then
\* setLoading(false)
ProcessData ==
  /\ loading
  /\ rawData' = rawDataAfter(rawData)
  /\ variants' = uniqueVariants(rawData)
  /\ funnelData' = funnelSteps(rawData)
  /\ conversionData' = conversionRates(rawData)
  /\ comparisonData' = comparisonMetrics(rawData)
  /\ loading' = FALSE
  /\ UNCHANGED <<chartVars, summaryVars, resultsVars, uploadVars>>

(***************************************************************************)
(* The inputs of processData.                                              *)
(***************************************************************************)
\* the variants and measures the free-form rows name
InputVariants == {"off", "variant_1"}
InputMeasures == {"Users", "Ct_Typewriter_Intro", "Ct_Goals"}

Rows ==
  [VARIATION_KEY : InputVariants, MeasureNames : InputMeasures, MeasureValues : 0..MaxCount]

\* the rows of one step for both arms: the Users count and the step's count of each
FourCountRows(step, controlUsers, controlValue, variant1Users, variant1Value) ==
  <<[VARIATION_KEY |-> "off", MeasureNames |-> "Users", MeasureValues |-> controlUsers],
    [VARIATION_KEY |-> "off", MeasureNames |-> step, MeasureValues |-> controlValue],
    [VARIATION_KEY |-> "variant_1", MeasureNames |-> "Users", MeasureValues |-> variant1Users],
    [VARIATION_KEY |-> "variant_1", MeasureNames |-> step, MeasureValues |-> variant1Value]>>

NotRendered ==
  [mounted |-> FALSE, historical |-> <<>>, projected |-> <<>>, showProjectedLine |-> FALSE]

\* the experiments the upload form can hand to App.handleExperimentProcessed
ExperimentIds == {"A", "B"}

\* useState(null) of ExperimentResults: no response held
NoResults == [loaded |-> FALSE, experiment |-> "null", cells |-> <<>>]

\* ExperimentResults mounted with experimentId null and nothing fetched
IdleResults ==
  /\ resultsCopy = 1
  /\ experimentId = "null"
  /\ inFlight = [id \in ExperimentIds |-> 0]
  /\ results = NoResults
  /\ resultsLoading = FALSE
  /\ resultsError = "null"

\* no file: selectedFile is null, no upload is awaited
NoFile == [name |-> "", type |-> ""]

\* no status: uploadStatus is null (part_002), statusMessage is null and isError is
\* false (UploadForm.tsx)
NoStatus == [message |-> "null", isError |-> FALSE, experimentId |-> ""]

IdleUpload ==
  /\ uploadCopy = 1
  /\ selectedFile = NoFile
  /\ isUploading = FALSE
  /\ uploadStatus = NoStatus
  /\ pendingUpload = NoFile

IdleChart == chartCopy = 1 /\ chartProps = <<>> /\ rendered = NotRendered
IdleSummary == summaryCopy = 1 /\ expandedRow = "null" /\ selectedTab = 0
IdleDashboard ==
  /\ rawData = <<>>
  /\ loading = TRUE
  /\ variants = <<>>
  /\ funnelData = <<>>
  /\ conversionData = <<>>
  /\ comparisonData = <<>>

\* the dashboard as mounted (example.tsx:7-13), with the parsed file still to process
InitDashboard ==
  /\ \E k \in 0..MaxRows : rawData \in [1..k -> Rows]
  /\ loading = TRUE
  /\ variants = <<>>
  /\ funnelData = <<>>
  /\ conversionData = <<>>
  /\ comparisonData = <<>>
  /\ IdleChart
  /\ IdleSummary
  /\ IdleResults
  /\ IdleUpload

InitCompare ==
  /\ \E i \in StepIndexes, controlUsers, variant1Users \in 0..MaxTrials,
        controlValue, variant1Value \in 0..MaxSuccesses :
       rawData = FourCountRows(funnelOrder[i], controlUsers, controlValue,
                               variant1Users, variant1Value)
  /\ loading = TRUE
  /\ variants = <<>>
  /\ funnelData = <<>>
  /\ conversionData = <<>>
  /\ comparisonData = <<>>
  /\ IdleChart
  /\ IdleSummary
  /\ IdleResults
  /\ IdleUpload

NextDashboard == ProcessData

SpecDashboard == InitDashboard /\ [][NextDashboard]_vars
SpecCompare == InitCompare /\ [][NextDashboard]_vars

(***************************************************************************)
(* ConfidenceChart.  A point is [date, confidence, isProjected], with the  *)
(* confidence in tenths of a percent (90% is 900).  Indexes are            *)
(* JavaScript's, from 0.  What a copy draws is recorded as the points of   *)
(* its two lines, each a sequence of [date, confidence].                   *)
(***************************************************************************)
\* point.confidence >= 90 (ConfidenceChart.tsx:34 and 180, part_003:33), in tenths
ConfidenceThreshold == 900

MinInt(a, b) == IF a < b THEN a ELSE b
MaxInt(a, b) == IF a > b THEN a ELSE b

\* Array.prototype.slice(start, end): a negative index counts from the end
Slice(s, start, end) ==
  LET len == Len(s)
      from == IF start < 0 THEN MaxInt(len + start, 0) ELSE MinInt(start, len)
      to == IF end < 0 THEN MaxInt(len + end, 0) ELSE MinInt(end, len)
  IN  SubSeq(s, from + 1, to)

\* data.findIndex(point => point.isProjected): -1 when no point is projected
lastHistoricalIndex(data) ==
  IF \E i \in 1..Len(data) : data[i].isProjected
    THEN (CHOOSE i \in 1..Len(data) :
            /\ data[i].isProjected
            /\ \A j \in 1..(i - 1) : ~data[j].isProjected) - 1
    ELSE -1

\* points.some(point => point.confidence >= 90)
someReached(points) ==
  \E i \in 1..Len(points) : points[i].confidence >= ConfidenceThreshold

Plot(point) == [date |-> point.date, confidence |-> point.confidence]
PlotAll(points) == [i \in 1..Len(points) |-> Plot(points[i])]

\* a <Line>'s points: the entries whose value is not null, in order (connectNulls)
PlotKept(data, kept) ==
  LET idx == IndexSeq(kept)
  IN  [k \in 1..Len(idx) |-> Plot(data[idx[k] + 1])]

\* the indexes of data, from 0
Indexes(data) == 0..(Len(data) - 1)

\* the first copy, ConfidenceChart.tsx:27-137
historicalData1(data) == Slice(data, 0, lastHistoricalIndex(data))
projectedData1(data) == Slice(data, lastHistoricalIndex(data) - 1, Len(data))

ConfidenceChart1(data) ==
  LET hasReachedConfidence == someReached(historicalData1(data))
      show == ~hasReachedConfidence /\ Len(projectedData1(data)) > 0
  IN  [mounted |-> TRUE,
       historical |-> PlotAll(historicalData1(data)),
       projected |-> IF show THEN PlotAll(projectedData1(data)) ELSE <<>>,
       showProjectedLine |-> show]

\* the second copy, ConfidenceChart.tsx:174-319
historicalSegment(data) ==
  IF lastHistoricalIndex(data) = -1 THEN data ELSE Slice(data, 0, lastHistoricalIndex(data))

\* historicalLineData: the confidence is kept where this holds, ConfidenceChart.tsx:183-187
historicalKept2(data, index) ==
  ~(lastHistoricalIndex(data) # -1 /\ index >= lastHistoricalIndex(data))

\* projectedLineData: the confidence is kept where this holds, ConfidenceChart.tsx:192-198
projectedKept2(data, index) ==
  IF index >= lastHistoricalIndex(data) - 1 /\ data[index + 1].isProjected
    THEN TRUE
    ELSE index = lastHistoricalIndex(data) - 1

ConfidenceChart2(data) ==
  LET hasReachedConfidence == someReached(historicalSegment(data))
      hasProjectedLineData == lastHistoricalIndex(data) # -1
      show == /\ ~hasReachedConfidence
              /\ hasProjectedLineData
              /\ \E i \in 1..Len(data) : projectedKept2(data, i - 1) /\ data[i].isProjected
  IN  [mounted |-> TRUE,
       historical |-> PlotKept(data, {index \in Indexes(data) : historicalKept2(data, index)}),
       projected |-> IF show
                       THEN PlotKept(data, {index \in Indexes(data) : projectedKept2(data, index)})
                       ELSE <<>>,
       showProjectedLine |-> show]

\* the third copy, part_003:27-175
showProjectedLine3(data) ==
  ~someReached(historicalSegment(data)) /\ lastHistoricalIndex(data) # -1

\* chartData[index].historical is not null, part_003:41
historicalKept3(data, index) ==
  index < lastHistoricalIndex(data) \/ lastHistoricalIndex(data) = -1

\* mutant: the overlap point left out of the projected series
projectedKept3_NoOverlap(data, index) ==
  showProjectedLine3(data) /\ index >= lastHistoricalIndex(data)

\* chartData[index].projected is not null, part_003:42
projectedKept3(data, index) ==
  showProjectedLine3(data) /\ index >= lastHistoricalIndex(data) - 1

ConfidenceChart3(data) ==
  [mounted |-> TRUE,
   historical |-> PlotKept(data, {index \in Indexes(data) : historicalKept3(data, index)}),
   projected |-> IF showProjectedLine3(data)
                   THEN PlotKept(data, {index \in Indexes(data) : projectedKept3(data, index)})
                   ELSE <<>>,
   showProjectedLine |-> showProjectedLine3(data)]

ChartCopies == {1, 2, 3}

ConfidenceChart(copy, data) ==
  CASE copy = 1 -> ConfidenceChart1(data)
    [] copy = 2 -> ConfidenceChart2(data)
    [] copy = 3 -> ConfidenceChart3(data)

\* React renders the chart with its data prop
RenderChart ==
  /\ ~rendered.mounted
  /\ rendered' = ConfidenceChart(chartCopy, chartProps)
  /\ UNCHANGED <<chartCopy, chartProps, dashboardVars, summaryVars, resultsVars, uploadVars>>

\* the dates of the points, one a day (StatisticalSummary.tsx:75-176, part_001:76-186)
Dates ==
  <<"2024-03-01", "2024-03-02", "2024-03-03", "2024-03-04", "2024-03-05", "2024-03-06",
    "2024-03-07", "2024-03-08", "2024-03-09", "2024-03-10", "2024-03-11", "2024-03-12",
    "2024-03-13", "2024-03-14", "2024-03-15", "2024-03-16">>

Confidences == (ConfidenceThreshold - ConfSpread)..(ConfidenceThreshold + ConfSpread)

\* a trajectory of the given confidences and tags, dated day by day
Trajectory(t) ==
  [i \in 1..Len(t) |-> [date |-> Dates[i], confidence |-> t[i][1], isProjected |-> t[i][2]]]

InitChart ==
  /\ chartCopy \in ChartCopies
  /\ \E k \in 0..MaxPoints :
       \E t \in [1..k -> Confidences \X BOOLEAN] : chartProps = Trajectory(t)
  /\ rendered = NotRendered
  /\ IdleDashboard
  /\ IdleSummary
  /\ IdleResults
  /\ IdleUpload

NextChart == RenderChart

SpecChart == InitChart /\ [][NextChart]_vars

(***************************************************************************)
(* StatisticalSummary and its dummyData.  Rates, uplift, chanceToBeat, the *)
(* credible interval and the effect size are in hundredths (97.67 is       *)
(* 9767); confidences are in tenths, as in ConfidenceChart.                *)
(***************************************************************************)
\* dummyData, StatisticalSummary.tsx:61-177
dummyData1 ==
  <<
    [step |-> "Typewriter_Intro",
     controlRate |-> 2, variant1Rate |-> 9767,
     relativeUplift |-> 41075271, chanceToBeat |-> 9900,
     significant |-> TRUE,
     sampleSizeControl |-> 8413, sampleSizeVariant |-> 8630,
     credibleInterval |-> <<9520, 9980>>, effectSize |-> 235,
     confidenceOverTime |-> <<
        [date |-> "2024-03-01", confidence |-> 150, isProjected |-> FALSE],
        [date |-> "2024-03-02", confidence |-> 280, isProjected |-> FALSE],
        [date |-> "2024-03-03", confidence |-> 450, isProjected |-> FALSE],
        [date |-> "2024-03-04", confidence |-> 520, isProjected |-> FALSE],
        [date |-> "2024-03-05", confidence |-> 680, isProjected |-> FALSE],
        [date |-> "2024-03-06", confidence |-> 720, isProjected |-> FALSE],
        [date |-> "2024-03-07", confidence |-> 780, isProjected |-> FALSE],
        [date |-> "2024-03-08", confidence |-> 820, isProjected |-> FALSE],
        [date |-> "2024-03-09", confidence |-> 850, isProjected |-> FALSE],
        [date |-> "2024-03-10", confidence |-> 870, isProjected |-> FALSE],
        [date |-> "2024-03-11", confidence |-> 885, isProjected |-> TRUE],
        [date |-> "2024-03-12", confidence |-> 892, isProjected |-> TRUE],
        [date |-> "2024-03-13", confidence |-> 901, isProjected |-> TRUE],
        [date |-> "2024-03-14", confidence |-> 915, isProjected |-> TRUE],
        [date |-> "2024-03-15", confidence |-> 928, isProjected |-> TRUE]>>],
    [step |-> "Goals",
     controlRate |-> 9785, variant1Rate |-> 7657,
     relativeUplift |-> -2175, chanceToBeat |-> 0,
     significant |-> TRUE,
     sampleSizeControl |-> 7500, sampleSizeVariant |-> 7600,
     credibleInterval |-> <<7250, 7890>>, effectSize |-> 185,
     confidenceOverTime |-> <<
        [date |-> "2024-03-01", confidence |-> 250, isProjected |-> FALSE],
        [date |-> "2024-03-02", confidence |-> 450, isProjected |-> FALSE],
        [date |-> "2024-03-03", confidence |-> 650, isProjected |-> FALSE],
        [date |-> "2024-03-04", confidence |-> 850, isProjected |-> FALSE],
        [date |-> "2024-03-05", confidence |-> 950, isProjected |-> FALSE]>>],
    [step |-> "Protections",
     controlRate |-> 7531, variant1Rate |-> 6956,
     relativeUplift |-> -764, chanceToBeat |-> 2124,
     significant |-> FALSE,
     sampleSizeControl |-> 7000, sampleSizeVariant |-> 7100,
     credibleInterval |-> <<6550, 7350>>, effectSize |-> 85,
     confidenceOverTime |-> <<
        [date |-> "2024-03-01", confidence |-> 200, isProjected |-> FALSE],
        [date |-> "2024-03-02", confidence |-> 350, isProjected |-> FALSE],
        [date |-> "2024-03-03", confidence |-> 500, isProjected |-> FALSE],
        [date |-> "2024-03-04", confidence |-> 650, isProjected |-> FALSE],
        [date |-> "2024-03-05", confidence |-> 800, isProjected |-> FALSE],
        [date |-> "2024-03-06", confidence |-> 830, isProjected |-> TRUE],
        [date |-> "2024-03-07", confidence |-> 860, isProjected |-> TRUE],
        [date |-> "2024-03-08", confidence |-> 880, isProjected |-> TRUE],
        [date |-> "2024-03-09", confidence |-> 910, isProjected |-> TRUE],
        [date |-> "2024-03-10", confidence |-> 930, isProjected |-> TRUE]>>],
    [step |-> "HowItWorks",
     controlRate |-> 7411, variant1Rate |-> 275,
     relativeUplift |-> -9629, chanceToBeat |-> 200,
     significant |-> TRUE,
     sampleSizeControl |-> 6500, sampleSizeVariant |-> 6600,
     credibleInterval |-> <<150, 400>>, effectSize |-> 215,
     confidenceOverTime |-> <<
        [date |-> "2024-03-01", confidence |-> 250, isProjected |-> FALSE],
        [date |-> "2024-03-02", confidence |-> 450, isProjected |-> FALSE],
        [date |-> "2024-03-03", confidence |-> 650, isProjected |-> FALSE],
        [date |-> "2024-03-04", confidence |-> 850, isProjected |-> FALSE],
        [date |-> "2024-03-05", confidence |-> 950, isProjected |-> FALSE]>>],
    [step |-> "Intent",
     controlRate |-> 7225, variant1Rate |-> 6882,
     relativeUplift |-> -474, chanceToBeat |-> 3286,
     significant |-> FALSE,
     sampleSizeControl |-> 6000, sampleSizeVariant |-> 6100,
     credibleInterval |-> <<6480, 7280>>, effectSize |-> 45,
     confidenceOverTime |-> <<
        [date |-> "2024-03-01", confidence |-> 200, isProjected |-> FALSE],
        [date |-> "2024-03-02", confidence |-> 350, isProjected |-> FALSE],
        [date |-> "2024-03-03", confidence |-> 500, isProjected |-> FALSE],
        [date |-> "2024-03-04", confidence |-> 650, isProjected |-> FALSE],
        [date |-> "2024-03-05", confidence |-> 800, isProjected |-> FALSE]>>]
  >>

\* dummyData, part_001:62-189
dummyData2 ==
  <<
    [step |-> "Typewriter_Intro",
     controlRate |-> 2, variant1Rate |-> 9767,
     relativeUplift |-> 41075271, chanceToBeat |-> 9900,
     significant |-> TRUE,
     sampleSizeControl |-> 8413, sampleSizeVariant |-> 8630,
     credibleInterval |-> <<9520, 9980>>, effectSize |-> 235,
     confidenceOverTime |-> <<
        [date |-> "2024-03-01", confidence |-> 150, isProjected |-> FALSE],
        [date |-> "2024-03-02", confidence |-> 280, isProjected |-> FALSE],
        [date |-> "2024-03-03", confidence |-> 450, isProjected |-> FALSE],
        [date |-> "2024-03-04", confidence |-> 520, isProjected |-> FALSE],
        [date |-> "2024-03-05", confidence |-> 680, isProjected |-> FALSE],
        [date |-> "2024-03-06", confidence |-> 720, isProjected |-> FALSE],
        [date |-> "2024-03-07", confidence |-> 780, isProjected |-> FALSE],
        [date |-> "2024-03-08", confidence |-> 820, isProjected |-> FALSE],
        [date |-> "2024-03-09", confidence |-> 850, isProjected |-> FALSE],
        [date |-> "2024-03-10", confidence |-> 920, isProjected |-> FALSE]>>],
    [step |-> "Goals",
     controlRate |-> 9785, variant1Rate |-> 7657,
     relativeUplift |-> -2175, chanceToBeat |-> 0,
     significant |-> TRUE,
     sampleSizeControl |-> 7500, sampleSizeVariant |-> 7600,
     credibleInterval |-> <<7250, 7890>>, effectSize |-> 185,
     confidenceOverTime |-> <<
        [date |-> "2024-03-01", confidence |-> 250, isProjected |-> FALSE],
        [date |-> "2024-03-02", confidence |-> 450, isProjected |-> FALSE],
        [date |-> "2024-03-03", confidence |-> 650, isProjected |-> FALSE],
        [date |-> "2024-03-04", confidence |-> 850, isProjected |-> FALSE],
        [date |-> "2024-03-05", confidence |-> 950, isProjected |-> FALSE]>>],
    [step |-> "Protections",
     controlRate |-> 7531, variant1Rate |-> 6956,
     relativeUplift |-> -764, chanceToBeat |-> 2124,
     significant |-> FALSE,
     sampleSizeControl |-> 7000, sampleSizeVariant |-> 7100,
     credibleInterval |-> <<6550, 7350>>, effectSize |-> 85,
     confidenceOverTime |-> <<
        [date |-> "2024-03-01", confidence |-> 200, isProjected |-> FALSE],
        [date |-> "2024-03-02", confidence |-> 350, isProjected |-> FALSE],
        [date |-> "2024-03-03", confidence |-> 500, isProjected |-> FALSE],
        [date |-> "2024-03-04", confidence |-> 650, isProjected |-> FALSE],
        [date |-> "2024-03-05", confidence |-> 800, isProjected |-> FALSE],
        [date |-> "2024-03-06", confidence |-> 820, isProjected |-> TRUE],
        [date |-> "2024-03-07", confidence |-> 840, isProjected |-> TRUE],
        [date |-> "2024-03-08", confidence |-> 855, isProjected |-> TRUE],
        [date |-> "2024-03-09", confidence |-> 870, isProjected |-> TRUE],
        [date |-> "2024-03-10", confidence |-> 882, isProjected |-> TRUE],
        [date |-> "2024-03-11", confidence |-> 890, isProjected |-> TRUE],
        [date |-> "2024-03-12", confidence |-> 895, isProjected |-> TRUE],
        [date |-> "2024-03-13", confidence |-> 898, isProjected |-> TRUE],
        [date |-> "2024-03-14", confidence |-> 901, isProjected |-> TRUE],
        [date |-> "2024-03-15", confidence |-> 905, isProjected |-> TRUE]>>],
    [step |-> "HowItWorks",
     controlRate |-> 7411, variant1Rate |-> 275,
     relativeUplift |-> -9629, chanceToBeat |-> 200,
     significant |-> TRUE,
     sampleSizeControl |-> 6500, sampleSizeVariant |-> 6600,
     credibleInterval |-> <<150, 400>>, effectSize |-> 215,
     confidenceOverTime |-> <<
        [date |-> "2024-03-01", confidence |-> 250, isProjected |-> FALSE],
        [date |-> "2024-03-02", confidence |-> 450, isProjected |-> FALSE],
        [date |-> "2024-03-03", confidence |-> 650, isProjected |-> FALSE],
        [date |-> "2024-03-04", confidence |-> 850, isProjected |-> FALSE],
        [date |-> "2024-03-05", confidence |-> 950, isProjected |-> FALSE]>>],
    [step |-> "Intent",
     controlRate |-> 7225, variant1Rate |-> 6882,
     relativeUplift |-> -474, chanceToBeat |-> 3286,
     significant |-> FALSE,
     sampleSizeControl |-> 6000, sampleSizeVariant |-> 6100,
     credibleInterval |-> <<6480, 7280>>, effectSize |-> 45,
     confidenceOverTime |-> <<
        [date |-> "2024-03-01", confidence |-> 200, isProjected |-> FALSE],
        [date |-> "2024-03-02", confidence |-> 350, isProjected |-> FALSE],
        [date |-> "2024-03-03", confidence |-> 500, isProjected |-> FALSE],
        [date |-> "2024-03-04", confidence |-> 650, isProjected |-> FALSE],
        [date |-> "2024-03-05", confidence |-> 800, isProjected |-> FALSE],
        [date |-> "2024-03-06", confidence |-> 812, isProjected |-> TRUE],
        [date |-> "2024-03-07", confidence |-> 825, isProjected |-> TRUE],
        [date |-> "2024-03-08", confidence |-> 838, isProjected |-> TRUE],
        [date |-> "2024-03-09", confidence |-> 850, isProjected |-> TRUE],
        [date |-> "2024-03-10", confidence |-> 861, isProjected |-> TRUE],
        [date |-> "2024-03-11", confidence |-> 870, isProjected |-> TRUE],
        [date |-> "2024-03-12", confidence |-> 878, isProjected |-> TRUE],
        [date |-> "2024-03-13", confidence |-> 885, isProjected |-> TRUE],
        [date |-> "2024-03-14", confidence |-> 892, isProjected |-> TRUE],
        [date |-> "2024-03-15", confidence |-> 898, isProjected |-> TRUE],
        [date |-> "2024-03-16", confidence |-> 902, isProjected |-> TRUE]>>]
  >>

SummaryCopies == {1, 2}

\* mutant: the last point of the Protections row tagged historical
dummyData_LateHistorical(copy) ==
  LET rows == IF copy = 1 THEN dummyData1 ELSE dummyData2
  IN  [rows EXCEPT ![3].confidenceOverTime[Len(rows[3].confidenceOverTime)].isProjected =
                     FALSE]

\* mutant: the Goals row's credibleInterval taken around its relativeUplift (-21.75)
dummyData_IntervalOfUplift(copy) ==
  LET rows == IF copy = 1 THEN dummyData1 ELSE dummyData2
  IN  [rows EXCEPT ![2].credibleInterval = <<-2490, -1850>>]

\* the dummyData of the copy that is built
dummyData(copy) == IF copy = 1 THEN dummyData1 ELSE dummyData2

\* the <StyledTab> elements, StatisticalSummary.tsx:254-257 and part_001:268-271
TabCount == 4

RowOf(copy, step) ==
  dummyData(copy)[CHOOSE r \in 1..Len(dummyData(copy)) : dummyData(copy)[r].step = step]

StepsOf(copy) == {dummyData(copy)[r].step : r \in 1..Len(dummyData(copy))}

\* handleRowExpand(step), StatisticalSummary.tsx:233-235 and part_001:247-249; the row's
\* Collapse opens on the ConfidenceChart of its confidenceOverTime (ExpandableRow) or
\* closes
HandleRowExpand(step) ==
  /\ expandedRow' = IF expandedRow = step THEN "null" ELSE step
  /\ chartProps' = IF expandedRow = step THEN <<>>
                   ELSE RowOf(summaryCopy, step).confidenceOverTime
  /\ rendered' = IF expandedRow = step THEN NotRendered
                 ELSE ConfidenceChart(chartCopy, RowOf(summaryCopy, step).confidenceOverTime)
  /\ UNCHANGED <<summaryCopy, selectedTab, chartCopy, dashboardVars, resultsVars, uploadVars>>

\* a handleTabChange that also closes the open row
HandleTabChange_ClosesRows(newValue) ==
  /\ selectedTab' = newValue
  /\ expandedRow' = "null"
  /\ chartProps' = <<>>
  /\ rendered' = NotRendered
  /\ UNCHANGED <<summaryCopy, chartCopy, dashboardVars, resultsVars, uploadVars>>

\* handleTabChange(_, newValue), StatisticalSummary.tsx:237-239 and part_001:251-253
HandleTabChange(newValue) ==
  /\ selectedTab' = newValue
  /\ UNCHANGED <<summaryCopy, expandedRow, chartVars, dashboardVars, resultsVars, uploadVars>>

InitSummary ==
  /\ summaryCopy \in SummaryCopies
  /\ expandedRow = "null"
  /\ selectedTab = 0
  /\ chartCopy \in ChartCopies
  /\ chartProps = <<>>
  /\ rendered = NotRendered
  /\ IdleDashboard
  /\ IdleResults
  /\ IdleUpload

NextSummary ==
  \/ \E step \in StepsOf(summaryCopy) : HandleRowExpand(step)
  \/ \E newValue \in 0..(TabCount - 1) : HandleTabChange(newValue)

SpecSummary == InitSummary /\ [][NextSummary]_vars

(***************************************************************************)
(* Properties.                                                             *)
(***************************************************************************)
\* the value a variant's last row of a measure carries, 0 when it has none
LastValue(rows, variant, name) ==
  LET S == {i \in 1..Len(rows) :
              rows[i].VARIATION_KEY = variant /\ rows[i].MeasureNames = name}
  IN  IF S = {} THEN 0 ELSE rows[CHOOSE i \in S : \A j \in S : j <= i].MeasureValues

\* count / by as a percentage: 100 * count / by, and not finite when by = 0
PercentOf(count, by) ==
  IF by = 0 THEN (IF count = 0 THEN NaN ELSE Infinity) ELSE Rat(100 * count, by)

OneIfZero(count) == IF count = 0 THEN 1 ELSE count

\* the measure a displayed step name stands for, and the measure before it in the funnel
MeasureOf(stepName) ==
  funnelOrder[CHOOSE i \in StepIndexes : StripCt(funnelOrder[i]) = stepName]
MeasureBefore(stepName) ==
  funnelOrder[(CHOOSE i \in StepIndexes : StripCt(funnelOrder[i]) = stepName) - 1]

Processed == ~loading

\* every variant has one entry per step, in both lists
EveryStepReported ==
  /\ Len(funnelData) = Len(variants) * Cardinality(StepIndexes)
  /\ Len(conversionData) = Len(funnelData)
  /\ \A i \in 1..Len(funnelData) :
       /\ conversionData[i].variant = funnelData[i].variant
       /\ conversionData[i].step = funnelData[i].step

\* C1, as claimed: every rate of a step (funnelData.conversionRate, conversionData.rate,
\* comparisonData's controlRate and variant1Rate) is the step's count divided by the
\* variant's Users count, for every variant that has users.
C1_AllRatesDivideByUsers ==
  Processed =>
    /\ \A i \in 1..Len(funnelData) :
         LET v == funnelData[i].variant
             users == LastValue(rawData, v, "Users")
             count == LastValue(rawData, v, MeasureOf(funnelData[i].step))
         IN  users > 0 =>
               /\ funnelData[i].conversionRate = PercentOf(count, users)
               /\ conversionData[i].rate = PercentOf(count, users)
    /\ \A k \in 1..Len(comparisonData) :
         LET m == MeasureOf(comparisonData[k].step)
         IN  /\ LastValue(rawData, "off", "Users") > 0 =>
                  comparisonData[k].controlRate =
                    PercentOf(LastValue(rawData, "off", m), LastValue(rawData, "off", "Users"))
             /\ LastValue(rawData, "variant_1", "Users") > 0 =>
                  comparisonData[k].variant1Rate =
                    PercentOf(LastValue(rawData, "variant_1", m),
                              LastValue(rawData, "variant_1", "Users"))

\* C1, amended: funnelData.conversionRate is the step's count divided by the variant's
\* Users count (not finite when that is 0 or missing); comparisonData's controlRate and
\* variant1Rate divide by the Users count too, with 1 in place of a 0 or missing one;
\* conversionData.rate divides by the count of the preceding entry of funnelOrder, with 1
\* in place of a 0 or missing one.
C1_RatesByUsersAndByPrevStep ==
  Processed =>
    /\ EveryStepReported
    /\ \A i \in 1..Len(funnelData) :
         LET v == funnelData[i].variant
             count == LastValue(rawData, v, MeasureOf(funnelData[i].step))
             prev == LastValue(rawData, v, MeasureBefore(funnelData[i].step))
         IN  /\ funnelData[i].count = count
             /\ funnelData[i].conversionRate = PercentOf(count, LastValue(rawData, v, "Users"))
             /\ conversionData[i].rate = PercentOf(count, OneIfZero(prev))
    /\ \A k \in 1..Len(comparisonData) :
         LET m == MeasureOf(comparisonData[k].step)
         IN  /\ comparisonData[k].controlRate =
                  PercentOf(LastValue(rawData, "off", m),
                            OneIfZero(LastValue(rawData, "off", "Users")))
             /\ comparisonData[k].variant1Rate =
                  PercentOf(LastValue(rawData, "variant_1", m),
                            OneIfZero(LastValue(rawData, "variant_1", "Users")))

\* a step of a variant with users, after a step reached by a different number of them:
\* its two rates differ
C1_Witness ==
  /\ Processed
  /\ \E i \in 1..Len(funnelData) :
       /\ LastValue(rawData, funnelData[i].variant, "Users") > 0
       /\ funnelData[i].count > 0
       /\ conversionData[i].prevStep # "Users"
       /\ LastValue(rawData, funnelData[i].variant, MeasureBefore(funnelData[i].step)) > 0
       /\ IsFinite(funnelData[i].conversionRate)
       /\ funnelData[i].conversionRate # conversionData[i].rate

\* the number null: no JavaScript number
Null == [n |-> 0, d |-> -1]

\* C7: when the control conversion rate of a step is 0, the relative uplift reported for
\* the step is null.
C7_UpliftNullWhenControlRateZero ==
  Processed =>
    \A k \in 1..Len(comparisonData) :
      comparisonData[k].controlRate = Int2Num(0) => comparisonData[k].relativeUplift = Null

\* C8: when the Users count of the control arm or of the variant arm is 0 or missing, no
\* step's comparison carries a numeric win probability.
C8_NoWinProbabilityWithoutTrials ==
  (/\ Processed
   /\ \/ LastValue(rawData, "off", "Users") = 0
      \/ LastValue(rawData, "variant_1", "Users") = 0) =>
    \A k \in 1..Len(comparisonData) : comparisonData[k].chanceToBeat = Null

\* the flags of a copy's summary rows follow the strict rule on chanceToBeat (hundredths
\* of a percent); no row lies on a boundary, so the inclusive rule gives the same flags
SummaryFlagsStrict(copy) ==
  \A r \in 1..Len(dummyData(copy)) :
    dummyData(copy)[r].significant <=>
      (dummyData(copy)[r].chanceToBeat > 9500 \/ dummyData(copy)[r].chanceToBeat < 500)

SwapArms(rows) ==
  [i \in 1..Len(rows) |->
     [rows[i] EXCEPT !.VARIATION_KEY =
        IF @ = "off" THEN "variant_1" ELSE IF @ = "variant_1" THEN "off" ELSE @]]

HardCodedSteps == {"Typewriter_Intro", "HowItWorks"}

HistoricalPrefix(data) ==
  LET P == {i \in 1..Len(data) : data[i].isProjected}
  IN  IF P = {} THEN data ELSE SubSeq(data, 1, (CHOOSE i \in P : \A j \in P : i <= j) - 1)

NoProjectedPoint(data) == \A i \in 1..Len(data) : ~data[i].isProjected

\* C2: for a trajectory with no projected point, every point is plotted on the
\* historical line and no point is plotted as projected.
C2_AllHistoricalPlotted ==
  (rendered.mounted /\ NoProjectedPoint(chartProps)) =>
    /\ rendered.historical = PlotAll(chartProps)
    /\ rendered.projected = <<>>
    /\ ~rendered.showProjectedLine

\* C2 holds of the second and third copies
C2_HoldsInLaterCopies == chartCopy \in {2, 3} => C2_AllHistoricalPlotted

\* C3: whenever a point before the first projected point has confidence >= 90, no
\* projected line and no projected value is rendered.
C3_NoProjectionOnceReached ==
  (rendered.mounted /\ someReached(HistoricalPrefix(chartProps))) =>
    /\ ~rendered.showProjectedLine
    /\ rendered.projected = <<>>

\* C3 holds of the second and third copies
C3_HoldsInLaterCopies == chartCopy \in {2, 3} => C3_NoProjectionOnceReached

\* h >= 1 historical points followed by p >= 1 projected points, and nothing else
HistoricalThenProjected(data, h) ==
  /\ h >= 1
  /\ h < Len(data)
  /\ \A i \in 1..Len(data) : data[i].isProjected <=> i > h

\* C4: when the projected line is shown for h >= 1 historical points followed by p >= 1
\* projected points, the projected series is the last historical point followed by the
\* p projected points, and the historical series is the h historical points.
C4_ProjectedSeriesAnchored ==
  \A h \in 1..Len(chartProps) :
    (/\ rendered.mounted
     /\ rendered.showProjectedLine
     /\ HistoricalThenProjected(chartProps, h)) =>
      /\ rendered.projected = PlotAll(SubSeq(chartProps, h, Len(chartProps)))
      /\ rendered.historical = PlotAll(SubSeq(chartProps, 1, h))
      /\ ~chartProps[h].isProjected

\* a shown projection of two projected points after two historical ones
C4_Witness ==
  /\ rendered.mounted
  /\ rendered.showProjectedLine
  /\ HistoricalThenProjected(chartProps, 2)
  /\ Len(chartProps) = 4
  /\ Len(rendered.projected) = 3

HistoricalFirst(data) ==
  \A i, j \in 1..Len(data) : (i < j /\ data[i].isProjected) => data[j].isProjected

\* C5: in every trajectory the summary displays, no historical point follows a
\* projected point.
C5_HistoricalBeforeProjected ==
  /\ \A r \in 1..Len(dummyData(summaryCopy)) :
       HistoricalFirst(dummyData(summaryCopy)[r].confidenceOverTime)
  /\ HistoricalFirst(chartProps)

\* an expanded row whose trajectory has historical and projected points
C5_Witness ==
  /\ expandedRow # "null"
  /\ chartProps = RowOf(summaryCopy, expandedRow).confidenceOverTime
  /\ \E i, j \in 1..Len(chartProps) : ~chartProps[i].isProjected /\ chartProps[j].isProjected

\* C6: in every displayed trajectory no projected point follows a projected point with
\* confidence >= 90, and a projected segment that never reaches 90 has at most 30
\* points.
C6_ProjectionStopsAtThreshold ==
  LET P == {i \in 1..Len(chartProps) : chartProps[i].isProjected}
  IN  /\ \A i, j \in P :
           (i < j) => chartProps[i].confidence < ConfidenceThreshold
      /\ (\A i \in P : chartProps[i].confidence < ConfidenceThreshold) =>
           Cardinality(P) <= 30

(***************************************************************************)
(* Properties of the win probability as a function of the counts.          *)
(***************************************************************************)
\* the four counts a step's comparison is computed from, example.tsx:131-134 and
\* 142-145: successes and trials of the control arm, then of the variant arm
FourCounts(rows, stepName) ==
  <<LastValue(rows, "off", MeasureOf(stepName)),
    OneIfZero(LastValue(rows, "off", "Users")),
    LastValue(rows, "variant_1", MeasureOf(stepName)),
    OneIfZero(LastValue(rows, "variant_1", "Users"))>>

\* C11: the win probability reported for a step is determined by the four counts alone:
\* two steps with identical (successes, trials) of control and variant carry the
\* identical chanceToBeat, whatever their names.
C11_WinProbabilityFromCountsAlone ==
  Processed =>
    \A j, k \in 1..Len(comparisonData) :
      FourCounts(rawData, comparisonData[j].step) = FourCounts(rawData, comparisonData[k].step)
        => comparisonData[j].chanceToBeat = comparisonData[k].chanceToBeat

\* what does hold: the step's name and the four counts together determine it, and the
\* name matters only for the two steps example.tsx:161-169 overwrites
C11_HoldsOffHardCodedSteps ==
  Processed =>
    \A j, k \in 1..Len(comparisonData) :
      (/\ comparisonData[j].step \notin HardCodedSteps
       /\ comparisonData[k].step \notin HardCodedSteps
       /\ FourCounts(rawData, comparisonData[j].step)
            = FourCounts(rawData, comparisonData[k].step))
        => comparisonData[j].chanceToBeat = comparisonData[k].chanceToBeat

(***************************************************************************)
(* processData on rows that name a measure outside funnelOrder or a        *)
(* variant the comparison does not know.                                   *)
(***************************************************************************)
\* rows of rawData in the input with unlisted names
MaxWideRows == 2

\* the variants the dashboard compares (example.tsx:111) and one more; the measures of
\* the free-form input and one that funnelOrder does not list
WideVariants == InputVariants \cup {"variant_2"}
WideMeasures == InputMeasures \cup {"Ct_Checkout"}

WideRows ==
  [VARIATION_KEY : WideVariants, MeasureNames : WideMeasures, MeasureValues : 0..MaxCount]

InitWide ==
  /\ \E k \in 0..MaxWideRows : rawData \in [1..k -> WideRows]
  /\ loading = TRUE
  /\ variants = <<>>
  /\ funnelData = <<>>
  /\ conversionData = <<>>
  /\ comparisonData = <<>>
  /\ IdleChart
  /\ IdleSummary
  /\ IdleResults
  /\ IdleUpload

SpecWide == InitWide /\ [][NextDashboard]_vars

\* a row names a measure that is not in funnelOrder
UnlistedMeasure(rows) ==
  \E i \in 1..Len(rows) : ~InSeq(rows[i].MeasureNames, funnelOrder)

\* a row names a variant other than the two the dashboard compares
UnlistedVariant(rows) ==
  \E i \in 1..Len(rows) : rows[i].VARIATION_KEY \notin InputVariants

NoOutput == funnelData = <<>> /\ conversionData = <<>> /\ comparisonData = <<>>

\* C12: when an input row names a measure that is not in the funnel order, or a variant
\* that is not one of the experiment's variants, processData produces no funnel and no
\* comparison output.
C12_UnlistedNamesRejected ==
  (Processed /\ (UnlistedMeasure(rawData) \/ UnlistedVariant(rawData))) => NoOutput

\* what the code does with such rows: a variant of any name gets its five funnel
\* entries, and a row of an unlisted measure is never read
C12_UnlistedNamesProcessed ==
  Processed =>
    /\ EveryStepReported
    /\ variants = uniqueVariants(rawData)
    /\ \A i \in 1..Len(funnelData) :
         funnelData[i].count =
           LastValue(rawData, funnelData[i].variant, MeasureOf(funnelData[i].step))

(***************************************************************************)
(* Counts that exceed the Users count, and Users counts of 0.              *)
(***************************************************************************)
\* some variant's count of a step exceeds its Users count: successes > trials
SuccessesExceedTrials(rows) ==
  \E i \in 1..Len(rows) :
    /\ rows[i].MeasureNames # "Users"
    /\ LastValue(rows, rows[i].VARIATION_KEY, rows[i].MeasureNames)
         > LastValue(rows, rows[i].VARIATION_KEY, "Users")

\* a finite rate between 0% and 100%
WithinPercent(x) ==
  /\ IsFinite(x)
  /\ ~NumGt(Int2Num(0), x)
  /\ ~NumGt(x, Int2Num(100))

\* C13: an input in which a step's count exceeds the variant's Users count is rejected
\* (no output), so every conversion rate reported for a variant that has users lies
\* between 0% and 100%.
C13_SuccessesAboveTrialsRejected ==
  Processed =>
    /\ SuccessesExceedTrials(rawData) => NoOutput
    /\ \A i \in 1..Len(funnelData) :
         LastValue(rawData, funnelData[i].variant, "Users") > 0 =>
           WithinPercent(funnelData[i].conversionRate)
    /\ \A k \in 1..Len(comparisonData) :
         /\ LastValue(rawData, "off", "Users") > 0 =>
              WithinPercent(comparisonData[k].controlRate)
         /\ LastValue(rawData, "variant_1", "Users") > 0 =>
              WithinPercent(comparisonData[k].variant1Rate)

\* what does hold: the rates stay within 0% and 100% on the inputs whose counts do not
\* exceed the Users count
C13_WithinPercentWhenCountsConsistent ==
  (Processed /\ ~SuccessesExceedTrials(rawData)) =>
    /\ \A i \in 1..Len(funnelData) :
         LastValue(rawData, funnelData[i].variant, "Users") > 0 =>
           WithinPercent(funnelData[i].conversionRate)
    /\ \A k \in 1..Len(comparisonData) :
         /\ WithinPercent(comparisonData[k].controlRate)
         /\ WithinPercent(comparisonData[k].variant1Rate)

\* a rate that is no number: null, or JavaScript's NaN
UndefinedRate(x) == x = Null \/ x = NaN

\* C14: when a variant's Users count is 0 or missing, every conversion rate reported for
\* that variant (funnelData's conversionRate, the comparison's controlRate or
\* variant1Rate) is undefined: not 0 and not any other number.
C14_RateUndefinedWithoutUsers ==
  Processed =>
    /\ \A i \in 1..Len(funnelData) :
         LastValue(rawData, funnelData[i].variant, "Users") = 0 =>
           UndefinedRate(funnelData[i].conversionRate)
    /\ \A k \in 1..Len(comparisonData) :
         /\ LastValue(rawData, "off", "Users") = 0 =>
              UndefinedRate(comparisonData[k].controlRate)
         /\ LastValue(rawData, "variant_1", "Users") = 0 =>
              UndefinedRate(comparisonData[k].variant1Rate)

\* what the code reports for a variant without users: NaN or Infinity in funnelData
\* (count / 0), and the count itself as a percentage in the comparison (count / 1)
C14_RatesReportedWithoutUsers ==
  Processed =>
    /\ \A i \in 1..Len(funnelData) :
         LastValue(rawData, funnelData[i].variant, "Users") = 0 =>
           funnelData[i].conversionRate =
             (IF funnelData[i].count = 0 THEN NaN ELSE Infinity)
    /\ \A k \in 1..Len(comparisonData) :
         /\ LastValue(rawData, "off", "Users") = 0 =>
              comparisonData[k].controlRate =
                Int2Num(100 * LastValue(rawData, "off", MeasureOf(comparisonData[k].step)))
         /\ LastValue(rawData, "variant_1", "Users") = 0 =>
              comparisonData[k].variant1Rate =
                Int2Num(100 * LastValue(rawData, "variant_1",
                                        MeasureOf(comparisonData[k].step)))

(***************************************************************************)
(* Two runs of processData that differ in the variant arm's counts.        *)
(***************************************************************************)
\* largest Users count and largest step count of the two runs compared
MaxMonoTrials == 6
MaxMonoSuccesses == 3

InitMonotone ==
  /\ \E i \in StepIndexes, controlUsers, variant1Users \in 0..MaxMonoTrials,
        controlValue, variant1Value \in 0..MaxMonoSuccesses :
       rawData = FourCountRows(funnelOrder[i], controlUsers, controlValue,
                               variant1Users, variant1Value)
  /\ loading = TRUE
  /\ variants = <<>>
  /\ funnelData = <<>>
  /\ conversionData = <<>>
  /\ comparisonData = <<>>
  /\ IdleChart
  /\ IdleSummary
  /\ IdleResults
  /\ IdleUpload

SpecMonotone == InitMonotone /\ [][NextDashboard]_vars

\* the comparison of a step in the run whose control rows are those of rows and whose
\* variant arm has the given Users count and step count
OtherRun(rows, stepName, variant1Users, variant1Value) ==
  comparisonOf(MeasureOf(stepName),
               measureMap(groupedByVariant(rows, "off")),
               measureMap(groupedByVariant(
                 FourCountRows(MeasureOf(stepName), 0, 0, variant1Users, variant1Value),
                 "variant_1")))

\* C16: with the control counts fixed, a run in which the variant's conversion rate at a
\* step is strictly higher reports a win probability for that step that is not lower.
C16_WinProbabilityMonotone ==
  Processed =>
    \A k \in 1..Len(comparisonData) :
      \A variant1Users \in 0..MaxMonoTrials, variant1Value \in 0..MaxMonoSuccesses :
        LET other == OtherRun(rawData, comparisonData[k].step, variant1Users, variant1Value)
        IN  NumGt(other.variant1Rate, comparisonData[k].variant1Rate) =>
              ~NumGt(comparisonData[k].chanceToBeat, other.chanceToBeat)

\* a step off the hard-coded ones where a run with a strictly higher variant rate
\* reports a strictly higher win probability, both strictly between 0 and 1
C16_Witness ==
  /\ Processed
  /\ \E k \in 1..Len(comparisonData) :
       /\ comparisonData[k].step \notin HardCodedSteps
       /\ NumGt(comparisonData[k].chanceToBeat, Int2Num(0))
       /\ \E variant1Users \in 1..MaxMonoTrials, variant1Value \in 0..MaxMonoSuccesses :
            LET other == OtherRun(rawData, comparisonData[k].step,
                                  variant1Users, variant1Value)
            IN  /\ NumGt(other.variant1Rate, comparisonData[k].variant1Rate)
                /\ NumGt(other.chanceToBeat, comparisonData[k].chanceToBeat)
                /\ NumGt(Int2Num(100), other.chanceToBeat)

\* C17: every win probability processData produces lies in [0, 1]: chanceToBeat, which
\* it stores in percent, lies in [0, 100], whatever the counts and the step.
C17_WinProbabilityWithinUnit ==
  Processed =>
    \A k \in 1..Len(comparisonData) : WithinPercent(comparisonData[k].chanceToBeat)

\* a step off the hard-coded ones whose rates differ by more than 10 points, so that
\* Math.min caps the approximation at 0 or at 1
C17_Witness ==
  /\ Processed
  /\ \E k \in 1..Len(comparisonData) :
       /\ comparisonData[k].step \notin HardCodedSteps
       /\ NumGt(NumAbs(NumSub(comparisonData[k].variant1Rate, comparisonData[k].controlRate)),
                Int2Num(10))
       /\ comparisonData[k].chanceToBeat \in {Int2Num(0), Int2Num(100)}

(***************************************************************************)
(* The frame of processData.                                               *)
(***************************************************************************)
\* C18: processData leaves its input unchanged: the step that processes rawData (loading
\* becoming false) leaves rawData with the same rows, of the same field values, in
\* the same order.
C18_InputUnchanged == [][(loading /\ ~loading') => rawData' = rawData]_vars

\* a processed input of MaxRows rows that has a Users count of 0 and a count above 0
C18_Witness ==
  /\ Processed
  /\ Len(rawData) = MaxRows
  /\ funnelData # <<>>
  /\ \E i, j \in 1..Len(rawData) :
       /\ rawData[i].MeasureNames = "Users" /\ rawData[i].MeasureValues = 0
       /\ rawData[j].MeasureValues > 0

(***************************************************************************)
(* The rows of the summary table.                                          *)
(***************************************************************************)
\* C19: for every row of the summary data of the copy displayed, credibleInterval[0] <=
\* variant1Rate <= credibleInterval[1], and both bounds lie in [0, 100] (0 to 10000 in
\* hundredths of a percent).
C19_IntervalAroundVariantRate ==
  \A r \in 1..Len(dummyData(summaryCopy)) :
    LET row == dummyData(summaryCopy)[r]
    IN  /\ row.credibleInterval[1] <= row.variant1Rate
        /\ row.variant1Rate <= row.credibleInterval[2]
        /\ 0 <= row.credibleInterval[1]
        /\ row.credibleInterval[2] <= 10000

\* a row is expanded, showing its 95% Credible Interval, and its variant rate lies
\* strictly inside the interval
C19_Witness ==
  /\ expandedRow \in StepsOf(summaryCopy)
  /\ LET row == RowOf(summaryCopy, expandedRow)
     IN  /\ row.credibleInterval[1] < row.variant1Rate
         /\ row.variant1Rate < row.credibleInterval[2]

(***************************************************************************)
(* ExperimentResults, both copies: part_000 (one Bayesian result per       *)
(* variant) and part_004 (one result per step and variant).  A response    *)
(* is [loaded, experiment, cells]; a cell is [result, rate, prob], with    *)
(* result telling whether the cell's result object is absent, null or      *)
(* present (bayesian_results[name] in part_000, stepItem.results[name] in  *)
(* part_004), rate the cell's conversion rate and prob its win             *)
(* probability, both JavaScript values.  Fractions are in units of         *)
(* 1/100000, displayed percentages in hundredths of a percent.             *)
(***************************************************************************)
\* requests that may be pending at once
MaxInFlight == 2

ResultsCopies == {1, 2}

Undefined == [kind |-> "undefined", v |-> 0]
JsNull == [kind |-> "null", v |-> 0]
JsNumber(v) == [kind |-> "number", v |-> v]

\* what a table cell shows: a percentage of two decimals, or a fixed text
Percent(hundredths) == [text |-> "percent", hundredths |-> hundredths]
Text(t) == [text |-> t, hundredths |-> 0]

\* (value * 100).toFixed(2) of a fraction given in 1/100000: hundredths of a percent,
\* rounded to the nearest
toFixed2(v) == (v + 5) \div 10

\* formatPercent of part_000:120-122: no guard, so null * 100 is 0 and undefined * 100
\* is NaN
formatPercent1(value) ==
  CASE value.kind = "number" -> Percent(toFixed2(value.v))
    [] value.kind = "null" -> Percent(0)
    [] OTHER -> Text("NaN%")

\* formatPercent of part_004:119-122
formatPercent2(value) ==
  IF value.kind \in {"null", "undefined"} THEN Text("N/A")
  ELSE Percent(toFixed2(value.v))

\* a variant's row, part_000:130-162: its conversion is always printed, its Win
\* Probability chip only when bayesianResult is truthy
CellView1(cell) ==
  [rate |-> formatPercent1(cell.rate),
   chip |-> IF cell.result = "data" THEN formatPercent1(cell.prob) ELSE Text("N/A")]

\* a cell of part_004:173-200: '-' when data is null or absent, the chip unless
\* prob_vs_control === null
CellView2(cell) ==
  IF cell.result = "data"
    THEN [rate |-> formatPercent2(cell.rate),
          chip |-> IF cell.prob # JsNull THEN formatPercent2(cell.prob) ELSE Text("none")]
    ELSE [rate |-> Text("-"), chip |-> Text("none")]

CellView(copy, cell) == IF copy = 1 THEN CellView1(cell) ELSE CellView2(cell)

Screen(name) == [screen |-> name, experiment |-> "null", cells |-> <<>>]

\* what ExperimentResults returns, part_000:75-238 and part_004:74-224
ResultsView ==
  IF experimentId = "null" THEN Screen("nothing")
  ELSE IF resultsLoading THEN Screen("skeleton")
  ELSE IF resultsError # "null" THEN Screen("alert")
  ELSE IF ~results.loaded THEN Screen("nothing")
  ELSE [screen |-> "table",
        experiment |-> results.experiment,
        cells |-> [i \in 1..Len(results.cells) |-> CellView(resultsCopy, results.cells[i])]]

\* the win probabilities and the conversion rates that responses carry
WinProbabilities == {0, 96504}
CellRates == <<12346, 25003>>

\* the cells a response can carry at a place: no result, a null result, or a result
\* whose win probability is absent, null or a number
CellsAt(i) ==
  {[result |-> r, rate |-> JsNumber(CellRates[i]), prob |-> Undefined] :
     r \in {"absent", "null"}}
  \cup {[result |-> "data", rate |-> JsNumber(CellRates[i]), prob |-> p] :
          p \in {Undefined, JsNull} \cup {JsNumber(v) : v \in WinProbabilities}}

\* the bodies the server may answer GET /api/experiments/{id}/ with
Responses(id) ==
  {[loaded |-> TRUE, experiment |-> id, cells |-> <<c1, c2>>] :
     c1 \in CellsAt(1), c2 \in CellsAt(2)}

InFlightCount == inFlight["A"] + inFlight["B"]

\* App.handleExperimentProcessed(id) (App.tsx:32-37) with an id other than the current
\* one, and the effect it triggers in ExperimentResults: fetchResults up to its await
\* (part_000:53-61, part_004:52-60)
SetExperimentId(id) ==
  /\ id # experimentId
  /\ InFlightCount < MaxInFlight
  /\ experimentId' = id
  /\ resultsLoading' = TRUE
  /\ resultsError' = "null"
  /\ inFlight' = [inFlight EXCEPT ![id] = @ + 1]
  /\ UNCHANGED <<resultsCopy, results, dashboardVars, chartVars, summaryVars,
                 uploadVars>>

\* a request for id resolves: fetchResults after its await, part_000:62-63 and 67-69,
\* part_004:61-62 and 66-68
FetchResolves(id, body) ==
  /\ inFlight[id] > 0
  /\ inFlight' = [inFlight EXCEPT ![id] = @ - 1]
  /\ results' = body
  /\ resultsLoading' = FALSE
  /\ UNCHANGED <<resultsCopy, experimentId, resultsError,
                 dashboardVars, chartVars, summaryVars,
                 uploadVars>>

\* a request for id rejects: the catch and finally of fetchResults, part_000:64-69 and
\* part_004:63-68
FetchRejects(id) ==
  /\ inFlight[id] > 0
  /\ inFlight' = [inFlight EXCEPT ![id] = @ - 1]
  /\ resultsError' = "Failed to fetch experiment results"
  /\ resultsLoading' = FALSE
  /\ UNCHANGED <<resultsCopy, experimentId, results,
                 dashboardVars, chartVars, summaryVars,
                 uploadVars>>

InitResults ==
  /\ resultsCopy \in ResultsCopies
  /\ experimentId = "null"
  /\ inFlight = [id \in ExperimentIds |-> 0]
  /\ results = NoResults
  /\ resultsLoading = FALSE
  /\ resultsError = "null"
  /\ IdleDashboard
  /\ IdleChart
  /\ IdleSummary
  /\ IdleUpload

NextResults ==
  \/ \E id \in ExperimentIds : SetExperimentId(id)
  \/ \E id \in ExperimentIds : \E body \in Responses(id) : FetchResolves(id, body)
  \/ \E id \in ExperimentIds : FetchRejects(id)

SpecResults == InitResults /\ [][NextResults]_vars

(***************************************************************************)
(* Properties of ExperimentResults.                                        *)
(***************************************************************************)
\* a cell without a result, or whose win probability is null or absent
Missing(cell) == cell.result # "data" \/ cell.prob.kind \in {"null", "undefined"}

\* '-', 'N/A' or no chip
Placeholder(shown) == shown.text \in {"-", "N/A", "none"}

\* C15: in the table ExperimentResults shows, a cell whose result or win probability is
\* null or absent carries a placeholder ('-', 'N/A' or no chip) where the win
\* probability goes, never a number, and every other cell shows its own rate and
\* its own win probability.
C15_MissingCellIsPlaceholder ==
  ResultsView.screen = "table" =>
    \A i \in 1..Len(results.cells) :
      /\ Missing(results.cells[i]) => Placeholder(ResultsView.cells[i].chip)
      /\ ~Missing(results.cells[i]) =>
           /\ ResultsView.cells[i].rate = Percent(toFixed2(results.cells[i].rate.v))
           /\ ResultsView.cells[i].chip = Percent(toFixed2(results.cells[i].prob.v))

\* the copy of part_004, whose formatPercent guards null and undefined, conforms
C15_HoldsInNewerCopy == resultsCopy = 2 => C15_MissingCellIsPlaceholder

\* C20: once no fetch is pending (and none has failed since the last change of
\* experimentId), the results held and shown are those fetched for the current
\* experimentId, in whichever order the responses arrived.
C20_ShowsCurrentExperiment ==
  (InFlightCount = 0 /\ experimentId # "null" /\ resultsError = "null") =>
    /\ results.loaded
    /\ results.experiment = experimentId
    /\ ResultsView.screen = "table"
    /\ ResultsView.experiment = experimentId

\* what does hold: the table shown is that of the response held, whichever it is
C20_ShowsResponseHeld ==
  ResultsView.screen = "table" =>
    /\ results.loaded
    /\ ResultsView.experiment = results.experiment
    /\ results \in Responses(results.experiment)

(***************************************************************************)
(* C21: loading is true in every state in which a fetch of                 *)
(* ExperimentResults is still in flight, overlapping fetches for two       *)
(* successive experimentIds included; it is false only when none is        *)
(* pending.                                                                *)
(***************************************************************************)
C21_LoadingWhileFetchInFlight == InFlightCount > 0 => resultsLoading

\* the rows of the displayed table whose Collapse is open: ExpandableRow gets
\* isExpanded = (expandedRow === row.step)
ExpandedRows(copy, expanded) ==
  {r \in 1..Len(dummyData(copy)) : dummyData(copy)[r].step = expanded}

(***************************************************************************)
(* C26: in StatisticalSummary at most one row is expanded at any time: a   *)
(* step that changes expandedRow either collapses the open row (to null)   *)
(* or makes another row the only open one, and a step that changes the     *)
(* selected tab leaves expandedRow as it was.                              *)
(***************************************************************************)
C26_AtMostOneRowExpanded ==
  [][ /\ Cardinality(ExpandedRows(summaryCopy, expandedRow')) <= 1
      /\ expandedRow' # expandedRow =>
           \/ expandedRow # "null" /\ expandedRow' = "null"
           \/ /\ expandedRow' \in StepsOf(summaryCopy)
              /\ ExpandedRows(summaryCopy, expandedRow) \cap
                   ExpandedRows(summaryCopy, expandedRow') = {}
      /\ selectedTab' # selectedTab => expandedRow' = expandedRow ]_vars

\* one row is open and the tab has been changed while it was
C26_Witness ==
  /\ Cardinality(ExpandedRows(summaryCopy, expandedRow)) = 1
  /\ selectedTab # 0

\* the status cell of a summary row shows 'Reached' (StatisticalSummary.tsx) or
\* 'Reached on m/d' (part_001) when row.significant, '10 days (12/8)' otherwise
ShowsReached(row) == row.significant

\* some measured (not projected) point of the row's trajectory is at the threshold
ReachedHistorically(row) ==
  \E i \in 1..Len(row.confidenceOverTime) :
    /\ ~row.confidenceOverTime[i].isProjected
    /\ row.confidenceOverTime[i].confidence >= ConfidenceThreshold

(***************************************************************************)
(* C27: for every row of the displayed summary data, significant is true   *)
(* exactly when some historical point of its confidenceOverTime has        *)
(* confidence >= 90, so 'Reached' is never shown for a row whose           *)
(* trajectory still needs a projection.                                    *)
(***************************************************************************)
C27_ReachedOnlyWhenMeasured ==
  \A r \in 1..Len(dummyData(summaryCopy)) :
    /\ dummyData(summaryCopy)[r].significant = ReachedHistorically(dummyData(summaryCopy)[r])
    /\ ShowsReached(dummyData(summaryCopy)[r]) => ReachedHistorically(dummyData(summaryCopy)[r])

\* the data of the other copy (part_001) satisfies the statement
C27_HoldsInNewerCopy == summaryCopy = 2 => C27_ReachedOnlyWhenMeasured

(***************************************************************************)
(* UploadForm (components/UploadForm.tsx, the placeholder copy, and        *)
(* unnamed/part_002, the copy that posts with axios) and                   *)
(* App.handleExperimentProcessed.                                          *)
(*                                                                         *)
(* The status of either copy is one record: message is "null" when         *)
(* uploadStatus (part_002) or statusMessage (UploadForm.tsx) is null;      *)
(* isError is UploadForm.tsx's isError and, in part_002, a status whose    *)
(* success is false; experimentId is "" when the status carries none.      *)
(***************************************************************************)
UploadCopies == {1, 2}

\* the files the user may pick in the file dialog
Files ==
  { [name |-> "a.csv", type |-> "text/csv"],
    [name |-> "b.csv", type |-> "text/csv"],
    [name |-> "notes.txt", type |-> "text/plain"] }

\* experiment_id of the response to POST /api/experiments/; "" is a response without one
UploadResponseIds == ExperimentIds \cup {""}

\* error.response.data.message of a failed POST; "" is a failure without one
ServerMessages == {"", "Invalid CSV format"}

Status(message, isError, id) ==
  [message |-> message, isError |-> isError, experimentId |-> id]

\* file.type === 'text/csv', UploadForm.tsx:28
isCsv_AnyType(file) == TRUE

isCsv(file) == file.type = "text/csv"

\* handleFileChange, UploadForm.tsx:22-41; the 'Choose File' button that opens the
\* dialog is disabled while isLoading (UploadForm.tsx:125-133)
HandleFileChange1(file) ==
  /\ ~isUploading
  /\ selectedFile' = IF file # NoFile /\ isCsv(file) THEN file ELSE NoFile
  /\ uploadStatus' = IF file # NoFile /\ ~isCsv(file)
                     THEN Status("Please select a valid CSV file.", TRUE, "")
                     ELSE NoStatus
  /\ UNCHANGED <<uploadCopy, isUploading, pendingUpload>>

\* handleFileChange, part_002:29-35; the 'Choose File' button is never disabled
\* (part_002:146-161)
HandleFileChange2(file) ==
  /\ selectedFile' = IF file # NoFile THEN file ELSE selectedFile
  /\ uploadStatus' = IF file # NoFile THEN NoStatus ELSE uploadStatus
  /\ UNCHANGED <<uploadCopy, isUploading, pendingUpload>>

HandleFileChange(file) ==
  /\ IF uploadCopy = 1 THEN HandleFileChange1(file) ELSE HandleFileChange2(file)
  /\ UNCHANGED <<dashboardVars, chartVars, summaryVars, resultsVars>>

\* the guard of handleSubmit: if (!selectedFile) { ...; return; }
startsUpload_WithoutFile(file) == TRUE

startsUpload(file) == file # NoFile

\* handleSubmit up to its await, UploadForm.tsx:48-61 and part_002:43-65; the submit
\* button is a LoadingButton, disabled while loading
HandleSubmit ==
  /\ ~isUploading
  /\ IF startsUpload(selectedFile)
     THEN /\ isUploading' = TRUE
          /\ uploadStatus' = NoStatus
          /\ pendingUpload' = selectedFile
     ELSE /\ uploadStatus' = Status("Please select a file first.", TRUE, "")
          /\ UNCHANGED <<isUploading, pendingUpload>>
  /\ UNCHANGED <<uploadCopy, selectedFile>>
  /\ UNCHANGED <<dashboardVars, chartVars, summaryVars, resultsVars>>

\* the id handleSubmit hands to onExperimentProcessed, "" when it does not call it:
\* if (onExperimentProcessed && experimentId), part_002:89-93
notifiedId_Default(experiment_id) == IF experiment_id # "" THEN experiment_id ELSE "A"

notifiedId(experiment_id) == experiment_id

\* App.handleExperimentProcessed(id), App.tsx:32-37, and, when the id is new, the
\* effect of ExperimentResults it triggers: fetchResults up to its await
HandleExperimentProcessed(id) ==
  IF id # "" /\ id # experimentId
  THEN /\ InFlightCount < MaxInFlight
       /\ experimentId' = id
       /\ resultsLoading' = TRUE
       /\ resultsError' = "null"
       /\ inFlight' = [inFlight EXCEPT ![id] = @ + 1]
       /\ UNCHANGED <<resultsCopy, results>>
  ELSE UNCHANGED resultsVars

\* isUploading once handleSubmit has run its finally block, UploadForm.tsx:100-102 and
\* part_002:109-111
uploadingAfter_NoFinally(outcome) == outcome = "rejected"

uploadingAfter(outcome) == FALSE

\* the simulated upload ends: the rest of handleSubmit, UploadForm.tsx:63-102
UploadResolves1 ==
  /\ uploadStatus' = Status("Placeholder: Uploaded " \o pendingUpload.name
                              \o " successfully! ID: TEMP_ID",
                            uploadStatus.isError, "")
  /\ selectedFile' = NoFile
  /\ UNCHANGED resultsVars

\* the POST resolves: the rest of the try block of handleSubmit, part_002:67-93
UploadResolves2(experiment_id) ==
  /\ uploadStatus' = Status("File uploaded and processed successfully.", FALSE,
                            experiment_id)
  /\ selectedFile' = NoFile
  /\ HandleExperimentProcessed(notifiedId(experiment_id))

UploadResolves(experiment_id) ==
  /\ pendingUpload # NoFile
  /\ IF uploadCopy = 1 THEN UploadResolves1 ELSE UploadResolves2(experiment_id)
  /\ isUploading' = uploadingAfter("resolved")
  /\ pendingUpload' = NoFile
  /\ UNCHANGED <<uploadCopy, dashboardVars, chartVars, summaryVars>>

\* the POST rejects: the catch and finally of handleSubmit, part_002:95-111; the timer
\* of UploadForm.tsx never rejects
UploadRejects(message) ==
  /\ pendingUpload # NoFile
  /\ uploadCopy = 2
  /\ uploadStatus' = Status(IF message # "" THEN message
                            ELSE "Error uploading file. Please try again.", TRUE, "")
  /\ isUploading' = uploadingAfter("rejected")
  /\ pendingUpload' = NoFile
  /\ UNCHANGED <<uploadCopy, selectedFile, resultsVars>>
  /\ UNCHANGED <<dashboardVars, chartVars, summaryVars>>

\* the body the server answers GET /api/experiments/{id}/ with in the upload runs
PlainResponse(id) ==
  [loaded |-> TRUE, experiment |-> id,
   cells |-> <<[result |-> "data", rate |-> JsNumber(CellRates[1]), prob |-> JsNull],
               [result |-> "data", rate |-> JsNumber(CellRates[2]),
                prob |-> JsNumber(96504)]>>]

InitUpload ==
  /\ uploadCopy \in UploadCopies
  /\ selectedFile = NoFile
  /\ isUploading = FALSE
  /\ uploadStatus = NoStatus
  /\ pendingUpload = NoFile
  /\ IdleDashboard
  /\ IdleChart
  /\ IdleSummary
  /\ IdleResults

UploadSettles ==
  \/ \E experiment_id \in UploadResponseIds : UploadResolves(experiment_id)
  \/ \E message \in ServerMessages : UploadRejects(message)

FetchSettles ==
  \/ \E id \in ExperimentIds : FetchResolves(id, PlainResponse(id))
  \/ \E id \in ExperimentIds : FetchRejects(id)

NextUpload ==
  \/ \E file \in Files \cup {NoFile} : HandleFileChange(file)
  \/ HandleSubmit
  \/ UploadSettles
  \/ FetchSettles

SpecUpload == InitUpload /\ [][NextUpload]_vars

\* every request issued settles
SpecUploadFair ==
  SpecUpload /\ WF_vars(UploadSettles) /\ WF_vars(FetchSettles)

(***************************************************************************)
(* C22: in the UploadForm that posts with axios, a file the user selects   *)
(* while an upload is in flight is still the selected file after that      *)
(* upload completes successfully.                                          *)
(***************************************************************************)
C22_SelectionSurvivesUpload ==
  [][ ( /\ uploadCopy = 2
        /\ pendingUpload # NoFile
        /\ selectedFile # pendingUpload
        /\ pendingUpload' = NoFile
        /\ ~uploadStatus'.isError )
      => selectedFile' = selectedFile ]_vars

\* a failed upload leaves the file selected meanwhile in place
C22_SelectionSurvivesFailedUpload ==
  [][ ( /\ uploadCopy = 2
        /\ pendingUpload # NoFile
        /\ selectedFile # pendingUpload
        /\ pendingUpload' = NoFile
        /\ uploadStatus'.isError )
      => selectedFile' = selectedFile ]_vars

\* the status shows a message
StatusSet == uploadStatus.message # "null"

(***************************************************************************)
(* C23: every submission of UploadForm that starts an upload eventually    *)
(* ends, provided the request settles, in a state where the uploading flag *)
(* is false and the status is set to a success or an error message.        *)
(***************************************************************************)
C23_UploadEnds == isUploading ~> (~isUploading /\ StatusSet)

\* an upload has failed and has ended: the flag is down and the error is shown
C23_Witness ==
  /\ ~isUploading
  /\ pendingUpload = NoFile
  /\ uploadStatus = Status("Error uploading file. Please try again.", TRUE, "")

(***************************************************************************)
(* C24: App's experimentId changes only in a step in which an upload       *)
(* succeeded and its response carried a non-empty experiment_id, which     *)
(* becomes the new value; a failed upload, a submit without a file and a   *)
(* successful response without experiment_id leave it unchanged, and it    *)
(* never returns to null.                                                  *)
(***************************************************************************)
C24_ExperimentIdFromSuccessfulUpload ==
  [][ experimentId' # experimentId =>
        /\ pendingUpload # NoFile
        /\ pendingUpload' = NoFile
        /\ ~uploadStatus'.isError
        /\ uploadStatus'.experimentId # ""
        /\ experimentId' = uploadStatus'.experimentId
        /\ experimentId' # "null" ]_vars

\* a second upload has replaced the id of the first, and its status names the new id
C24_Witness ==
  /\ experimentId = "B"
  /\ inFlight["A"] > 0
  /\ uploadStatus = Status("File uploaded and processed successfully.", FALSE, "B")

(***************************************************************************)
(* C25: submitting UploadForm with no file selected issues no upload       *)
(* request, leaves the uploading flag false, sets the error status         *)
(* 'Please select a file first.' and does not call onExperimentProcessed.  *)
(***************************************************************************)
C25_SubmitWithoutFile ==
  [][ /\ (selectedFile = NoFile /\ ~isUploading) =>
           /\ ~isUploading'
           /\ pendingUpload' = NoFile
           /\ experimentId' = experimentId
      /\ ( /\ uploadStatus' # uploadStatus
           /\ uploadStatus'.message = "Please select a file first." ) =>
           /\ selectedFile = NoFile
           /\ uploadStatus'.isError
           /\ UNCHANGED <<selectedFile, isUploading, pendingUpload, resultsVars>> ]_vars

\* the form after a submit without a file
C25_Witness ==
  /\ selectedFile = NoFile
  /\ ~isUploading
  /\ pendingUpload = NoFile
  /\ uploadStatus = Status("Please select a file first.", TRUE, "")

(***************************************************************************)
(* C28: in the placeholder UploadForm, selectedFile is in every reachable  *)
(* state null or a file of MIME type 'text/csv'; choosing a file of any    *)
(* other type leaves selectedFile null and shows 'Please select a valid    *)
(* CSV file.' as an error.                                                 *)
(***************************************************************************)
C28_OnlyCsvSelected ==
  uploadCopy = 1 =>
    /\ selectedFile = NoFile \/ selectedFile.type = "text/csv"
    /\ uploadStatus.message = "Please select a valid CSV file." =>
         selectedFile = NoFile /\ uploadStatus.isError

\* a file that is not a CSV has been chosen
C28_Witness ==
  /\ uploadCopy = 1
  /\ uploadStatus = Status("Please select a valid CSV file.", TRUE, "")
  /\ selectedFile = NoFile

====
